---- MODULE Spec2Model ----
(***************************************************************************)
(* The prediction form of cluster-prediction-frontend/src/App.js: the      *)
(* state of the App component, its event handlers, and the requests it     *)
(* hands to the prediction service.                                        *)
(*                                                                         *)
(* A JavaScript string is a sequence of one-character strings (the empty   *)
(* string is << >>); the option values of a <select> are single symbols.   *)
(* A JavaScript number is a record [nan, num, den]: NaN, or the exact      *)
(* rational num/den (rounding of the IEEE double is not modelled).         *)
(*                                                                         *)
(* Each handler is one action.  handleSubmit is asynchronous: HandleSubmit *)
(* is its synchronous part, up to the await of axios.post, and Response    *)
(* is its continuation when the response of one awaited request arrives.   *)
(* inflight holds the awaited requests, each with the body it was posted   *)
(* with; nextId numbers them.  Of the response only predictionId is kept:  *)
(* the other fields of response.data are rendered and never read by a      *)
(* handler.  The handlers are modelled as the functions they are: what the *)
(* browser's <input type="number"> does to a typed text before the change  *)
(* event reaches handleChange is not part of the component.                *)
(*                                                                         *)
(* handleMedicationSubmit is asynchronous in the same way: medInflight     *)
(* holds the requests it awaits.                                           *)
(*                                                                         *)
(* Four specifications share the actions:                                  *)
(*   Spec          the handlers of the prediction form, from the           *)
(*                 constructed state, few values;                          *)
(*   SpecSubmit    handleSubmit on every filled-in form;                   *)
(*   SpecType      keystrokes into the text fields;                        *)
(*   SpecFollowUp  the follow-up block under a filled-in form.             *)
(***************************************************************************)
EXTENDS Integers, Sequences, FiniteSets

VARIABLES inputs, glucoseUnit, cpeptideUnit, isVerified, currentMedications,
          result, errorMessage, nextId, inflight,
          isManagementChanged, futureMedications, submissionStatus,
          medicationError, medNextId, medInflight

vars == <<inputs, glucoseUnit, cpeptideUnit, isVerified, currentMedications,
          result, errorMessage, nextId, inflight,
          isManagementChanged, futureMedications, submissionStatus,
          medicationError, medNextId, medInflight>>

\* The state of the follow-up block under the displayed result.
followUp == <<isManagementChanged, futureMedications, submissionStatus,
              medicationError, medNextId, medInflight>>

form == <<inputs, glucoseUnit, cpeptideUnit, isVerified, currentMedications>>

(***************************************************************************)
(* Bounds of the exploration.                                              *)
(***************************************************************************)
\* Requests to /predict one behaviour issues (caps the request identifiers).
MaxSubmits == 2
\* Requests to /submit_medications one behaviour issues.
MaxMedSubmits == 2
\* Longest string typed into a field in SpecType.
MaxLen == 3

(***************************************************************************)
(* Strings and numbers.                                                    *)
(***************************************************************************)
Digits == {"0", "1", "2", "3", "4", "5", "6", "7", "8", "9"}

\* The characters keystrokes are drawn from: a digit, the point, a letter.
Alphabet == {"1", ".", "a"}

EMPTY == << >>

NULL == [null |-> TRUE]

NaN == [nan |-> TRUE, num |-> 0, den |-> 1]

Num(n, d) == [nan |-> FALSE, num |-> n, den |-> d]

DigitValue(c) ==
    CASE c = "0" -> 0 [] c = "1" -> 1 [] c = "2" -> 2 [] c = "3" -> 3
      [] c = "4" -> 4 [] c = "5" -> 5 [] c = "6" -> 6 [] c = "7" -> 7
      [] c = "8" -> 8 [] c = "9" -> 9

RECURSIVE Pow10(_)
Pow10(k) == IF k = 0 THEN 1 ELSE 10 * Pow10(k - 1)

\* Number of leading digits of s from position i on.
RECURSIVE DigitRun(_, _)
DigitRun(s, i) ==
    IF i <= Len(s) /\ s[i] \in Digits THEN 1 + DigitRun(s, i + 1) ELSE 0

\* Value of the digits s[i] .. s[i + n - 1] read as a decimal numeral.
RECURSIVE DigitsValue(_, _, _)
DigitsValue(s, i, n) ==
    IF n = 0 THEN 0
    ELSE 10 * DigitsValue(s, i, n - 1) + DigitValue(s[i + n - 1])

\* Mutant of MatchesDecimal: the pattern /^[0-9.]*$/, which admits any number
\* of points.
MatchesDecimal_anyPoints(s) == \A i \in 1..Len(s) : s[i] \in Digits \cup {"."}

\* /^[0-9]*\.?[0-9]*$/.test(s)
MatchesDecimal(s) ==
    LET a == DigitRun(s, 1)
        p == IF a < Len(s) /\ s[a + 1] = "." THEN 1 ELSE 0
        b == DigitRun(s, a + p + 1)
    IN  a + p + b = Len(s)

\* parseFloat(s), for strings of digits, points and letters: the value of the
\* longest prefix that is a decimal literal, NaN when there is none.
parseFloat(s) ==
    LET a == DigitRun(s, 1)
        p == IF a < Len(s) /\ s[a + 1] = "." THEN 1 ELSE 0
        b == IF p = 1 THEN DigitRun(s, a + 2) ELSE 0
    IN  IF a = 0 /\ b = 0 THEN NaN
        ELSE Num(DigitsValue(s, 1, a) * Pow10(b) + DigitsValue(s, a + 2, b),
                 Pow10(b))

\* x / c and x * c in JavaScript: NaN propagates.
Divide(x, c) ==
    IF x.nan \/ c.nan THEN NaN ELSE Num(x.num * c.den, x.den * c.num)

Times(x, c) ==
    IF x.nan \/ c.nan THEN NaN ELSE Num(x.num * c.num, x.den * c.den)

(***************************************************************************)
(* The component's constants.                                              *)
(***************************************************************************)
FieldNames == {"gad", "hba1c", "bmi", "age", "cpeptide", "glucose"}

MedKeys == {"insulin", "glp1rAgonist", "sglt2Inhibitor", "metformin", "other", "none"}

GadOptions == {<<"Positive">>, <<"Negative">>}

GlucoseUnits == {"mg/dL", "mmol/L"}

CpeptideUnits == {"ng/mL", "nmol/L"}

\* 18.0182 and 0.3311
GlucoseFactor == Num(180182, 10000)

CpeptideFactor == Num(3311, 10000)

MsgVerify == "Please verify that you are entering real patient information."

MsgSelect == "Please select the patient's current medication(s)."

MsgNone == "You cannot select \"None\" along with other medications."

MsgFields == "All fields must be filled with valid values."

MsgUnits == "Please select units for glucose and C-peptide."

MsgServer == "Server Error: ..."

MsgRange == "The input values are out of range. Please enter valid values within the accepted range."

MsgSelectFuture == "Please select at least one medication going forward."
MsgIdMissing == "Failed to submit. Prediction ID is missing."
MsgSaved == "Saved successfully."
MsgRetry == "Failed to submit. Please try again."
MsgUnexpected == "An unexpected error occurred. Please try again later."

(***************************************************************************)
(* State after construction (the useState initial values).                 *)
(***************************************************************************)
InitInputs == [n \in FieldNames |-> EMPTY]

InitMedications == [k \in MedKeys |-> FALSE]

InitFutureMedications == [k \in MedKeys |-> FALSE]

\* The follow-up block as constructed: nothing chosen, nothing sent.
InitFollowUp ==
    /\ isManagementChanged = ""
    /\ futureMedications = InitFutureMedications
    /\ submissionStatus = ""
    /\ medicationError = ""
    /\ medNextId = 0
    /\ medInflight = {}

Init ==
    /\ inputs = InitInputs
    /\ glucoseUnit = ""
    /\ cpeptideUnit = ""
    /\ isVerified = FALSE
    /\ currentMedications = InitMedications
    /\ result = NULL
    /\ errorMessage = ""
    /\ nextId = 0
    /\ inflight = {}
    /\ InitFollowUp

(***************************************************************************)
(* Change handlers.                                                        *)
(***************************************************************************)
\* The inputs object handleChange stores for the event {name, value}.
handleChange(inp, name, value) ==
    IF name = "glucose" \/ name = "cpeptide"
    THEN IF value = EMPTY \/ MatchesDecimal(value)
         THEN [inp EXCEPT ![name] = value]
         ELSE inp
    ELSE [inp EXCEPT ![name] = value]

HandleChange(name, value) ==
    /\ inputs' = handleChange(inputs, name, value)
    /\ UNCHANGED followUp
    /\ UNCHANGED <<glucoseUnit, cpeptideUnit, isVerified, currentMedications,
                   result, errorMessage, nextId, inflight>>

HandleCheckboxChange(name, checked) ==
    /\ currentMedications' = [currentMedications EXCEPT ![name] = checked]
    /\ UNCHANGED followUp
    /\ UNCHANGED <<inputs, glucoseUnit, cpeptideUnit, isVerified,
                   result, errorMessage, nextId, inflight>>

SetIsVerified(checked) ==
    /\ isVerified' = checked
    /\ UNCHANGED followUp
    /\ UNCHANGED <<inputs, glucoseUnit, cpeptideUnit, currentMedications,
                   result, errorMessage, nextId, inflight>>

SetGlucoseUnit(value) ==
    /\ glucoseUnit' = value
    /\ UNCHANGED followUp
    /\ UNCHANGED <<inputs, cpeptideUnit, isVerified, currentMedications,
                   result, errorMessage, nextId, inflight>>

SetCpeptideUnit(value) ==
    /\ cpeptideUnit' = value
    /\ UNCHANGED followUp
    /\ UNCHANGED <<inputs, glucoseUnit, isVerified, currentMedications,
                   result, errorMessage, nextId, inflight>>

(***************************************************************************)
(* handleSubmit: the checks, the payload, the request.                     *)
(***************************************************************************)
\* Mutant of validationError: the required-field check runs before the
\* medication checks.
validationError_fieldsFirst ==
    IF ~isVerified THEN MsgVerify
    ELSE IF \/ inputs["gad"] = EMPTY \/ inputs["hba1c"] = EMPTY
            \/ inputs["bmi"] = EMPTY \/ inputs["age"] = EMPTY
            \/ inputs["cpeptide"] = EMPTY \/ inputs["glucose"] = EMPTY THEN MsgFields
    ELSE IF ~(\E k \in MedKeys : currentMedications[k]) THEN MsgSelect
    ELSE IF currentMedications["none"]
            /\ \E k \in MedKeys : k # "none" /\ currentMedications[k] THEN MsgNone
    ELSE IF glucoseUnit = "" \/ cpeptideUnit = "" THEN MsgUnits
    ELSE ""

\* Mutant of validationError: the check of "none" against the other keys is
\* missing.
validationError_noConflict ==
    IF ~isVerified THEN MsgVerify
    ELSE IF ~(\E k \in MedKeys : currentMedications[k]) THEN MsgSelect
    ELSE IF \/ inputs["gad"] = EMPTY \/ inputs["hba1c"] = EMPTY
            \/ inputs["bmi"] = EMPTY \/ inputs["age"] = EMPTY
            \/ inputs["cpeptide"] = EMPTY \/ inputs["glucose"] = EMPTY THEN MsgFields
    ELSE IF glucoseUnit = "" \/ cpeptideUnit = "" THEN MsgUnits
    ELSE ""

\* Mutant of validationError: the glucose field is left out of the
\* required-field check.
validationError_glucoseOptional ==
    IF ~isVerified THEN MsgVerify
    ELSE IF ~(\E k \in MedKeys : currentMedications[k]) THEN MsgSelect
    ELSE IF currentMedications["none"]
            /\ \E k \in MedKeys : k # "none" /\ currentMedications[k] THEN MsgNone
    ELSE IF \/ inputs["gad"] = EMPTY \/ inputs["hba1c"] = EMPTY
            \/ inputs["bmi"] = EMPTY \/ inputs["age"] = EMPTY
            \/ inputs["cpeptide"] = EMPTY THEN MsgFields
    ELSE IF glucoseUnit = "" \/ cpeptideUnit = "" THEN MsgUnits
    ELSE ""

\* Mutant of validationError: the conflict check does not exempt the key
\* "none" itself, so "none" alone is refused.
validationError_noneAlone ==
    IF ~isVerified THEN MsgVerify
    ELSE IF ~(\E k \in MedKeys : currentMedications[k]) THEN MsgSelect
    ELSE IF currentMedications["none"]
            /\ \E k \in MedKeys : currentMedications[k] THEN MsgNone
    ELSE IF \/ inputs["gad"] = EMPTY \/ inputs["hba1c"] = EMPTY
            \/ inputs["bmi"] = EMPTY \/ inputs["age"] = EMPTY
            \/ inputs["cpeptide"] = EMPTY \/ inputs["glucose"] = EMPTY THEN MsgFields
    ELSE IF glucoseUnit = "" \/ cpeptideUnit = "" THEN MsgUnits
    ELSE ""

\* The message of the first failing check, "" when every check passes.
validationError ==
    IF ~isVerified THEN MsgVerify
    ELSE IF ~(\E k \in MedKeys : currentMedications[k]) THEN MsgSelect
    ELSE IF currentMedications["none"]
            /\ \E k \in MedKeys : k # "none" /\ currentMedications[k] THEN MsgNone
    ELSE IF \/ inputs["gad"] = EMPTY \/ inputs["hba1c"] = EMPTY
            \/ inputs["bmi"] = EMPTY \/ inputs["age"] = EMPTY
            \/ inputs["cpeptide"] = EMPTY \/ inputs["glucose"] = EMPTY THEN MsgFields
    ELSE IF glucoseUnit = "" \/ cpeptideUnit = "" THEN MsgUnits
    ELSE ""

\* Mutant of glucoseValue: the conversion constant 18 in place of 18.0182.
glucoseValue_factor18 ==
    IF glucoseUnit = "mg/dL"
    THEN Divide(parseFloat(inputs["glucose"]), Num(18, 1))
    ELSE parseFloat(inputs["glucose"])

glucoseValue ==
    IF glucoseUnit = "mg/dL"
    THEN Divide(parseFloat(inputs["glucose"]), GlucoseFactor)
    ELSE parseFloat(inputs["glucose"])

cpeptideValue ==
    IF cpeptideUnit = "ng/mL"
    THEN Times(parseFloat(inputs["cpeptide"]), CpeptideFactor)
    ELSE parseFloat(inputs["cpeptide"])

\* Mutant of someInputs: the selected units are sent along with the values.
someInputs_withUnits ==
    [gad          |-> IF inputs["gad"] = <<"Positive">> THEN 1 ELSE 0,
     hba1c        |-> parseFloat(inputs["hba1c"]),
     bmi          |-> parseFloat(inputs["bmi"]),
     age          |-> parseFloat(inputs["age"]),
     cpeptide     |-> cpeptideValue,
     glucose      |-> glucoseValue,
     glucoseUnit  |-> glucoseUnit,
     cpeptideUnit |-> cpeptideUnit,
     medications  |-> currentMedications,
     isVerified   |-> isVerified]

\* The body of the POST to /predict.
someInputs ==
    [gad         |-> IF inputs["gad"] = <<"Positive">> THEN 1 ELSE 0,
     hba1c       |-> parseFloat(inputs["hba1c"]),
     bmi         |-> parseFloat(inputs["bmi"]),
     age         |-> parseFloat(inputs["age"]),
     cpeptide    |-> cpeptideValue,
     glucose     |-> glucoseValue,
     medications |-> currentMedications,
     isVerified  |-> isVerified]

\* Mutant of Reject: the displayed result is not cleared before the checks.
Reject_keepsResult(reason) ==
    /\ errorMessage' = reason
    /\ UNCHANGED followUp
    /\ UNCHANGED <<inputs, glucoseUnit, cpeptideUnit, isVerified,
                   currentMedications, result, nextId, inflight>>

\* A failed check: the message is shown and the handler returns.
Reject(reason) ==
    /\ errorMessage' = reason
    /\ result' = NULL
    /\ UNCHANGED followUp
    /\ UNCHANGED <<inputs, glucoseUnit, cpeptideUnit, isVerified,
                   currentMedications, nextId, inflight>>

\* Every check passed: the request is sent and the handler awaits the response.
Post ==
    /\ nextId < MaxSubmits
    /\ errorMessage' = ""
    /\ result' = NULL
    /\ nextId' = nextId + 1
    /\ inflight' = inflight \cup {[id |-> nextId + 1, data |-> someInputs]}
    /\ UNCHANGED followUp
    /\ UNCHANGED <<inputs, glucoseUnit, cpeptideUnit, isVerified, currentMedications>>

HandleSubmit ==
    IF validationError # "" THEN Reject(validationError) ELSE Post

\* The response of request r arrives; response.data is stored when it is truthy.
\* The service names the prediction: its identifier is modelled by the request's.
PredictResolved(r, hasData) ==
    /\ r \in inflight
    /\ inflight' = inflight \ {r}
    /\ result' = IF hasData THEN [predictionId |-> r.id] ELSE result
    /\ UNCHANGED followUp
    /\ UNCHANGED <<inputs, glucoseUnit, cpeptideUnit, isVerified,
                   currentMedications, errorMessage, nextId>>

\* The request r fails: the catch block shows one of its three messages.
PredictFailed(r, message) ==
    /\ r \in inflight
    /\ inflight' = inflight \ {r}
    /\ errorMessage' = message
    /\ UNCHANGED followUp
    /\ UNCHANGED <<inputs, glucoseUnit, cpeptideUnit, isVerified,
                   currentMedications, result, nextId>>

FailureMessages == {MsgServer, MsgRange, MsgUnexpected}

Response ==
    \E r \in inflight :
        \/ \E hasData \in BOOLEAN : PredictResolved(r, hasData)
        \/ \E message \in FailureMessages : PredictFailed(r, message)

(***************************************************************************)
(* The follow-up block: the management question, the medications going     *)
(* forward, and handleMedicationSubmit.  medInflight holds the awaited     *)
(* requests to /submit_medications, each with the body it was posted with; *)
(* medNextId numbers them.                                                 *)
(***************************************************************************)
\* The response of request r arrives with data that has no predictionId: the
\* stored result has predictionId undefined, modelled by 0 (the identifiers
\* the service gives are positive).
PredictResolvedNoId(r) ==
    /\ r \in inflight
    /\ inflight' = inflight \ {r}
    /\ result' = [predictionId |-> 0]
    /\ UNCHANGED followUp
    /\ UNCHANGED <<inputs, glucoseUnit, cpeptideUnit, isVerified,
                   currentMedications, errorMessage, nextId>>

\* The radio buttons of the management question.
SetIsManagementChanged(value) ==
    /\ isManagementChanged' = value
    /\ UNCHANGED <<inputs, glucoseUnit, cpeptideUnit, isVerified, currentMedications,
                   result, errorMessage, nextId, inflight>>
    /\ UNCHANGED <<futureMedications, submissionStatus, medicationError,
                   medNextId, medInflight>>

HandleFutureMedicationChange(name, checked) ==
    /\ futureMedications' = [futureMedications EXCEPT ![name] = checked]
    /\ UNCHANGED <<inputs, glucoseUnit, cpeptideUnit, isVerified, currentMedications,
                   result, errorMessage, nextId, inflight>>
    /\ UNCHANGED <<isManagementChanged, submissionStatus, medicationError,
                   medNextId, medInflight>>

\* The message of the first failing check of handleMedicationSubmit, "" when
\* both pass.
medicationValidationError ==
    IF /\ isManagementChanged = "yes"
       /\ ~ \E k \in MedKeys : futureMedications[k]
    THEN MsgSelectFuture
    ELSE IF /\ futureMedications["none"]
            /\ \E k \in MedKeys : k # "none" /\ futureMedications[k]
    THEN MsgNone
    ELSE ""

\* The negation of (!result || !result.predictionId).
hasPredictionId == result # NULL /\ result.predictionId # 0

medicationsToSubmit ==
    IF isManagementChanged = "yes" THEN futureMedications ELSE NULL

\* Mutant of medicationBody: the identifier sent is the one of the latest
\* request to /predict, whichever result is displayed.
medicationBody_latestRequest ==
    [predictionId        |-> nextId,
     isManagementChanged |-> isManagementChanged,
     medications         |-> medicationsToSubmit]

\* The body of the POST to /submit_medications.
medicationBody ==
    [predictionId        |-> result.predictionId,
     isManagementChanged |-> isManagementChanged,
     medications         |-> medicationsToSubmit]

\* A failed check: the message is shown and the handler returns.
MedicationReject(reason) ==
    /\ medicationError' = reason
    /\ UNCHANGED <<inputs, glucoseUnit, cpeptideUnit, isVerified, currentMedications,
                   result, errorMessage, nextId, inflight>>
    /\ UNCHANGED <<isManagementChanged, futureMedications, submissionStatus,
                   medNextId, medInflight>>

\* No prediction to attach to: the status says so and nothing is sent.
MedicationIdMissing ==
    /\ medicationError' = ""
    /\ submissionStatus' = MsgIdMissing
    /\ UNCHANGED <<inputs, glucoseUnit, cpeptideUnit, isVerified, currentMedications,
                   result, errorMessage, nextId, inflight>>
    /\ UNCHANGED <<isManagementChanged, futureMedications, medNextId, medInflight>>

\* The request is sent and the handler awaits the response.
MedicationPost ==
    /\ medNextId < MaxMedSubmits
    /\ medicationError' = ""
    /\ medNextId' = medNextId + 1
    /\ medInflight' = medInflight \cup {[id |-> medNextId + 1, data |-> medicationBody]}
    /\ UNCHANGED <<inputs, glucoseUnit, cpeptideUnit, isVerified, currentMedications,
                   result, errorMessage, nextId, inflight>>
    /\ UNCHANGED <<isManagementChanged, futureMedications, submissionStatus>>

HandleMedicationSubmit ==
    IF medicationValidationError # ""
    THEN MedicationReject(medicationValidationError)
    ELSE IF ~ hasPredictionId
    THEN MedicationIdMissing
    ELSE MedicationPost

\* The response of request m arrives.
MedicationResolved(m) ==
    /\ m \in medInflight
    /\ medInflight' = medInflight \ {m}
    /\ submissionStatus' = MsgSaved
    /\ UNCHANGED <<inputs, glucoseUnit, cpeptideUnit, isVerified, currentMedications,
                   result, errorMessage, nextId, inflight>>
    /\ UNCHANGED <<isManagementChanged, futureMedications, medicationError, medNextId>>

\* The request m fails: the catch block shows its message.
MedicationFailed(m) ==
    /\ m \in medInflight
    /\ medInflight' = medInflight \ {m}
    /\ submissionStatus' = MsgRetry
    /\ UNCHANGED <<inputs, glucoseUnit, cpeptideUnit, isVerified, currentMedications,
                   result, errorMessage, nextId, inflight>>
    /\ UNCHANGED <<isManagementChanged, futureMedications, medicationError, medNextId>>

MedicationResponse ==
    \E m \in medInflight : MedicationResolved(m) \/ MedicationFailed(m)

(***************************************************************************)
(* Spec: the component driven by its handlers from the constructed state.  *)
(* Each handler is offered a few values: enough to fill the form, to empty *)
(* a field again, to store a lone point in the glucose field, and to build *)
(* a valid, an empty and a conflicting medication selection.  The other    *)
(* values of the fields, the other options of the selectors and the other  *)
(* checkboxes are varied in SpecSubmit.                                    *)
(***************************************************************************)
UIValues(name) ==
    IF name = "gad" THEN {<<"Positive">>}
    ELSE IF name = "glucose" THEN {EMPTY, <<"1">>, <<".">>}
    ELSE IF name = "cpeptide" THEN {EMPTY, <<"1">>}
    ELSE {EMPTY, <<"7">>}

UIKeys == {"metformin", "none"}

Next ==
    \/ \E name \in FieldNames : \E value \in UIValues(name) : HandleChange(name, value)
    \/ \E name \in UIKeys : \E checked \in BOOLEAN : HandleCheckboxChange(name, checked)
    \/ \E checked \in BOOLEAN : SetIsVerified(checked)
    \/ \E value \in {"mmol/L"} : SetGlucoseUnit(value)
    \/ \E value \in {"nmol/L"} : SetCpeptideUnit(value)
    \/ HandleSubmit
    \/ Response

Spec == Init /\ [][Next]_vars

(***************************************************************************)
(* SpecSubmit: handleSubmit applied to the forms the user can have filled  *)
(* in.  The inputs are the ones handleChange stores when it is given one   *)
(* event per field on the constructed inputs; the unit selectors, the      *)
(* consent checkbox and the six medication checkboxes take every value.    *)
(***************************************************************************)
SubmitValues(name) ==
    CASE name = "gad"      -> {EMPTY} \cup GadOptions
      [] name = "hba1c"    -> {EMPTY, <<"7", ".", "5">>}
      [] name = "bmi"      -> {EMPTY, <<"3", "0">>}
      [] name = "age"      -> {EMPTY, <<"5", "0">>}
      [] name = "cpeptide" -> {EMPTY, <<"2">>, <<"2", "a">>, <<".", "5">>}
      [] name = "glucose"  -> {EMPTY, <<"9", "0">>, <<"9", "a">>, <<".">>}

FilledInputs ==
    { handleChange(handleChange(handleChange(handleChange(handleChange(handleChange(
          InitInputs, "gad", g), "hba1c", h), "bmi", b), "age", a), "cpeptide", c),
          "glucose", gl) :
        <<g, h, b, a, c, gl>> \in
            SubmitValues("gad") \X SubmitValues("hba1c") \X SubmitValues("bmi")
            \X SubmitValues("age") \X SubmitValues("cpeptide") \X SubmitValues("glucose") }

InitSubmit ==
    /\ inputs \in FilledInputs
    /\ glucoseUnit \in {""} \cup GlucoseUnits
    /\ cpeptideUnit \in {""} \cup CpeptideUnits
    /\ isVerified \in BOOLEAN
    /\ currentMedications \in [MedKeys -> BOOLEAN]
    /\ result = NULL
    /\ errorMessage = ""
    /\ nextId = 0
    /\ inflight = {}
    /\ InitFollowUp

NextSubmit ==
    \/ HandleSubmit
    \/ Response

SpecSubmit == InitSubmit /\ [][NextSubmit]_vars

(***************************************************************************)
(* SpecType: keystrokes.  The text inputs are controlled: a keystroke      *)
(* hands handleChange the stored value followed by the typed character.    *)
(***************************************************************************)
TypedFields == {"hba1c", "cpeptide", "glucose"}

KeyPress(name, c) ==
    /\ Len(inputs[name]) < MaxLen
    /\ HandleChange(name, Append(inputs[name], c))

ClearField(name) == HandleChange(name, EMPTY)

NextType ==
    \/ \E name \in TypedFields : \E c \in Alphabet : KeyPress(name, c)
    \/ \E name \in TypedFields : ClearField(name)

SpecType == Init /\ [][NextType]_vars

(***************************************************************************)
(* SpecFollowUp: the follow-up block.  The form is filled in and valid, as *)
(* the handlers of Spec leave it; predictions are requested and answered,  *)
(* with and without an identifier, while the follow-up handlers run.       *)
(***************************************************************************)
FollowUpInputs ==
    handleChange(handleChange(handleChange(handleChange(handleChange(handleChange(
        InitInputs, "gad", <<"Positive">>), "hba1c", <<"7">>), "bmi", <<"7">>),
        "age", <<"7">>), "cpeptide", <<"1">>), "glucose", <<"1">>)

InitFollowUpForm ==
    /\ inputs = FollowUpInputs
    /\ glucoseUnit = "mmol/L"
    /\ cpeptideUnit = "nmol/L"
    /\ isVerified = TRUE
    /\ currentMedications = [InitMedications EXCEPT !["metformin"] = TRUE]
    /\ result = NULL
    /\ errorMessage = ""
    /\ nextId = 0
    /\ inflight = {}
    /\ InitFollowUp

FutureKeys == {"insulin", "none"}

NextFollowUp ==
    \/ HandleSubmit
    \/ \E r \in inflight : PredictResolved(r, TRUE)
    \/ \E r \in inflight : PredictResolvedNoId(r)
    \/ \E value \in {"yes", "no"} : SetIsManagementChanged(value)
    \/ \E name \in FutureKeys : \E checked \in BOOLEAN :
           HandleFutureMedicationChange(name, checked)
    \/ HandleMedicationSubmit
    \/ MedicationResponse

SpecFollowUp == InitFollowUpForm /\ [][NextFollowUp]_vars

(***************************************************************************)
(* The checks of the specification, stated apart from the handler.         *)
(***************************************************************************)
ConsentMissing == isVerified = FALSE

SelectionMissing == \A k \in MedKeys : currentMedications[k] = FALSE

SelectionConflict ==
    /\ currentMedications["none"] = TRUE
    /\ Cardinality({k \in MedKeys : currentMedications[k]}) > 1

RequiredFieldMissing == \E n \in FieldNames : Len(inputs[n]) = 0

UnitMissing == glucoseUnit \notin GlucoseUnits \/ cpeptideUnit \notin CpeptideUnits

\* The five checks in the order of the specification, each with its message.
CheckOrder ==
    << <<ConsentMissing, MsgVerify>>, <<SelectionMissing, MsgSelect>>,
       <<SelectionConflict, MsgNone>>, <<RequiredFieldMissing, MsgFields>>,
       <<UnitMissing, MsgUnits>> >>

SomeCheckFails == \E i \in DOMAIN CheckOrder : CheckOrder[i][1]

FirstFailingMessage ==
    LET i == CHOOSE j \in DOMAIN CheckOrder :
                 /\ CheckOrder[j][1]
                 /\ \A k \in 1..(j - 1) : ~CheckOrder[k][1]
    IN  CheckOrder[i][2]

ValidationMessages == {MsgVerify, MsgSelect, MsgNone, MsgFields, MsgUnits}

\* C1: a handleSubmit on a form that fails at least one check reports the
\* message of the first failing check in the order consent, selection
\* missing, none-conflict, required field missing, units missing.
C1_FirstFailingCheckReported ==
    [][(HandleSubmit /\ SomeCheckFails) => errorMessage' = FirstFailingMessage]_vars

\* Witness of C1: a form that fails three checks shows the message of the
\* earliest of them.
C1_Witness ==
    /\ ~ConsentMissing /\ SelectionMissing /\ RequiredFieldMissing /\ UnitMissing
    /\ errorMessage = MsgSelect

\* C2 as claimed: a rejected handleSubmit sends nothing and leaves the form
\* and the displayed prediction result unchanged.
C2_RejectionChangesNothing ==
    [][(HandleSubmit /\ SomeCheckFails) =>
          /\ inflight' = inflight /\ nextId' = nextId
          /\ form' = form
          /\ result' = result]_vars

\* C2 as amended: a rejected handleSubmit sends nothing and leaves the form
\* unchanged; the displayed prediction result is cleared.
C2_RejectionClearsResultOnly ==
    [][(HandleSubmit /\ SomeCheckFails) =>
          /\ inflight' = inflight /\ nextId' = nextId
          /\ form' = form
          /\ errorMessage' \in ValidationMessages
          /\ result' = NULL]_vars

\* Witness of C2: a submission was rejected after an earlier one had been
\* sent and answered.
C2_Witness ==
    /\ nextId = 1 /\ inflight = {}
    /\ errorMessage = MsgVerify /\ result = NULL

\* C3: every payload sent has finite hba1c, bmi, age, cpeptide and glucose.
C3_PayloadNumbersFinite ==
    \A r \in inflight :
        \A f \in {"hba1c", "bmi", "age", "cpeptide", "glucose"} : ~r.data[f].nan

\* C4: every payload sent carries a medication selection with at least one
\* key true and without "none" true together with another key.
C4_PayloadMedicationsValid ==
    \A r \in inflight :
        LET chosen == {k \in MedKeys : r.data.medications[k]}
        IN  /\ chosen # {}
            /\ "none" \in chosen => chosen = {"none"}

\* Witness of C4: a payload is in flight and the checkboxes have since been
\* changed to a conflicting selection.
C4_Witness ==
    \E r \in inflight :
        /\ r.data.medications["metformin"] /\ ~r.data.medications["none"]
        /\ currentMedications["metformin"] /\ currentMedications["none"]

\* C5 as claimed: a handleSubmit on a form with an empty required field
\* reports "all fields required" whatever the consent flag, the medication
\* selection and the units are.
C5_EmptyFieldAlwaysReported ==
    [][(HandleSubmit /\ RequiredFieldMissing) => errorMessage' = MsgFields]_vars

\* C5 as amended: such a handleSubmit is rejected with a validation message
\* and sends nothing, and the message is "all fields required" whenever the
\* consent flag is true and the medication selection is neither empty nor
\* conflicting, whatever the other fields and the units are.
C5_EmptyFieldReportedAfterEarlierChecks ==
    [][(HandleSubmit /\ RequiredFieldMissing) =>
          /\ errorMessage' \in ValidationMessages
          /\ inflight' = inflight
          /\ (~ConsentMissing /\ ~SelectionMissing /\ ~SelectionConflict)
                => errorMessage' = MsgFields]_vars

\* Witness of C5: only the glucose value is missing, the units are missing
\* too, and the message is the one of the required fields.
C5_Witness ==
    /\ inputs["glucose"] = EMPTY
    /\ \A n \in FieldNames \ {"glucose"} : inputs[n] # EMPTY
    /\ UnitMissing /\ ~ConsentMissing /\ ~SelectionMissing /\ ~SelectionConflict
    /\ errorMessage = MsgFields

\* The fields of NormalizedRequest.
NormalizedRequestFields ==
    {"gad", "hba1c", "bmi", "age", "cpeptide", "glucose", "medications"}

UnitTags == {"glucoseUnit", "cpeptideUnit"}

\* C6 as claimed: every payload sent consists of exactly the fields of
\* NormalizedRequest, with gad 0 or 1.
C6_PayloadIsNormalizedRequest ==
    \A r \in inflight :
        /\ DOMAIN r.data = NormalizedRequestFields
        /\ r.data.gad \in {0, 1}

\* C6 as amended: every payload sent consists of the fields of
\* NormalizedRequest and the field isVerified, which is true; gad is 0 or 1
\* and no unit tag is sent.
C6_PayloadIsNormalizedRequestAndConsent ==
    \A r \in inflight :
        /\ DOMAIN r.data = NormalizedRequestFields \cup {"isVerified"}
        /\ DOMAIN r.data \cap UnitTags = {}
        /\ r.data.gad \in {0, 1}
        /\ r.data.isVerified = TRUE

\* Witness of C6: a payload built from a form with units selected is in flight.
C6_Witness ==
    \E r \in inflight :
        /\ r.data.gad = 0 /\ inputs["gad"] = <<"Negative">>
        /\ glucoseUnit = "mg/dL" /\ cpeptideUnit = "ng/mL"

\* The form of the specification's example: consent, every field filled, both
\* units selected, exactly one medication key true.
CompleteForm ==
    /\ isVerified = TRUE
    /\ \A n \in FieldNames : Len(inputs[n]) > 0
    /\ glucoseUnit \in GlucoseUnits /\ cpeptideUnit \in CpeptideUnits
    /\ Cardinality({k \in MedKeys : currentMedications[k]}) = 1

\* C7: a handleSubmit on a complete form leaves the error message empty and
\* hands exactly one payload to the prediction service.
C7_CompleteFormIsSent ==
    [][(HandleSubmit /\ CompleteForm) =>
          /\ errorMessage' = ""
          /\ inflight \subseteq inflight'
          /\ Cardinality(inflight' \ inflight) = 1]_vars

\* Witness of C7: a complete form with only "none" ticked has been submitted.
C7_Witness ==
    /\ CompleteForm /\ currentMedications["none"]
    /\ errorMessage = "" /\ nextId = 1 /\ Cardinality(inflight) = 1

\* The numbers the sample strings of SubmitValues denote.
EnteredValue(s) ==
    CASE s = <<"7", ".", "5">> -> Num(75, 10)
      [] s = <<"3", "0">>      -> Num(30, 1)
      [] s = <<"5", "0">>      -> Num(50, 1)
      [] s = <<"2">>           -> Num(2, 1)
      [] s = <<".", "5">>      -> Num(5, 10)
      [] s = <<"9", "0">>      -> Num(90, 1)
      [] s = <<".">>           -> NaN

RECURSIVE GCD(_, _)
GCD(a, b) == IF b = 0 THEN a ELSE GCD(b, a % b)

\* x and y are the same number: both NaN, or equal in lowest terms.
SameNumber(x, y) ==
    /\ x.nan = y.nan
    /\ ~x.nan =>
          LET gx == GCD(x.num, x.den)
              gy == GCD(y.num, y.den)
          IN  /\ x.num \div gx = y.num \div gy
              /\ x.den \div gx = y.den \div gy

\* floor(x * 10^k) of a number x that is not NaN, by long division.
RECURSIVE Remainder(_, _)
Remainder(x, k) ==
    IF k = 0 THEN x.num % x.den ELSE (Remainder(x, k - 1) * 10) % x.den

RECURSIVE Scaled(_, _)
Scaled(x, k) ==
    IF k = 0 THEN x.num \div x.den
    ELSE Scaled(x, k - 1) * 10 + (Remainder(x, k - 1) * 10) \div x.den

\* The reference normalization of the form: 1 / 18.0182 is 5000 / 90091 and
\* 0.3311 is 3311 / 10000.
ReferenceGlucose ==
    LET e == EnteredValue(inputs["glucose"])
    IN  IF glucoseUnit = "mg/dL" /\ ~e.nan THEN Num(e.num * 5000, e.den * 90091) ELSE e

ReferenceCpeptide ==
    LET e == EnteredValue(inputs["cpeptide"])
    IN  IF cpeptideUnit = "ng/mL" /\ ~e.nan THEN Num(e.num * 3311, e.den * 10000) ELSE e

IsReferenceNormalization(data) ==
    /\ SameNumber(data.glucose, ReferenceGlucose)
    /\ SameNumber(data.cpeptide, ReferenceCpeptide)
    /\ inputs["gad"] = <<"Positive">> => data.gad = 1
    /\ inputs["gad"] = <<"Negative">> => data.gad = 0
    /\ SameNumber(data.hba1c, EnteredValue(inputs["hba1c"]))
    /\ SameNumber(data.bmi, EnteredValue(inputs["bmi"]))
    /\ SameNumber(data.age, EnteredValue(inputs["age"]))
    \* the worked examples: 90 mg/dL is 4.9949 mmol/L, 2 ng/mL is 0.6622 nmol/L
    /\ (inputs["glucose"] = <<"9", "0">> /\ glucoseUnit = "mg/dL")
          => Scaled(data.glucose, 4) = 49949
    /\ (inputs["cpeptide"] = <<"2">> /\ cpeptideUnit = "ng/mL")
          => Scaled(data.cpeptide, 4) = 6622

\* C8: the payload of every accepted submission is the reference
\* normalization of the form it was submitted from.
C8_PayloadIsReferenceNormalization ==
    [][HandleSubmit => \A r \in inflight' \ inflight : IsReferenceNormalization(r.data)]_vars

\* Witness of C8: the two worked examples have been submitted together, both
\* values converted.
C8_Witness ==
    \E r \in inflight :
        /\ inputs["glucose"] = <<"9", "0">> /\ glucoseUnit = "mg/dL"
        /\ inputs["cpeptide"] = <<"2">> /\ cpeptideUnit = "ng/mL"
        /\ inputs["gad"] = <<"Positive">> /\ r.data.gad = 1
        /\ Scaled(r.data.glucose, 4) = 49949

\* The unsigned decimal pattern: digits with at most one point among them.
UnsignedDecimal(s) ==
    /\ \A i \in 1..Len(s) : s[i] \in Digits \cup {"."}
    /\ Cardinality({i \in 1..Len(s) : s[i] = "."}) <= 1

\* The inputs after the characters of chars are typed, one at a time, into
\* the field name.
RECURSIVE Typed(_, _, _)
Typed(inp, name, chars) ==
    IF chars = << >> THEN inp
    ELSE Typed(handleChange(inp, name, Append(inp[name], Head(chars))), name, Tail(chars))

\* C9: the stored cpeptide and glucose values always match the unsigned
\* decimal pattern; a keystroke into one of the two fields that breaks the
\* pattern changes no input, one that keeps it replaces that field alone;
\* typing "12a.3" leaves "12.3".
C9_KeystrokeFilter ==
    /\ [](UnsignedDecimal(inputs["cpeptide"]) /\ UnsignedDecimal(inputs["glucose"]))
    /\ [][\A name \in {"cpeptide", "glucose"} : \A c \in Alphabet :
             KeyPress(name, c) =>
                 LET value == Append(inputs[name], c)
                 IN  IF UnsignedDecimal(value)
                     THEN /\ inputs'[name] = value
                          /\ \A n \in FieldNames \ {name} : inputs'[n] = inputs[n]
                     ELSE inputs' = inputs]_vars
    /\ Typed(InitInputs, "glucose", <<"1", "2", "a", ".", "3">>)["glucose"]
          = <<"1", "2", ".", "3">>

\* Witness of C9: a decimal with a point is stored in glucose next to other
\* typed fields.
C9_Witness ==
    /\ inputs["glucose"] = <<"1", ".", "1">>
    /\ inputs["cpeptide"] = <<".", "1">>
    /\ inputs["hba1c"] = <<"1", "a">>

\* C10: at most one submission is in flight.
C10_OneSubmissionInFlight == Cardinality(inflight) <= 1

(***************************************************************************)
(* The follow-up request and the prediction it attaches to.                *)
(***************************************************************************)
\* The result displayed names a prediction.
PredictionNamed == result # NULL /\ result.predictionId # 0

\* The checks on the medications going forward pass.
FutureSelectionAccepted ==
    /\ ~ (isManagementChanged = "yes" /\ \A k \in MedKeys : futureMedications[k] = FALSE)
    /\ ~ (futureMedications["none"] = TRUE /\
            \E k \in MedKeys \ {"none"} : futureMedications[k] = TRUE)

\* The requests to /submit_medications the step sends.
SentMedicationRequests == medInflight' \ medInflight

\* C11 as stated: every request handleMedicationSubmit sends carries the
\* predictionId of the result displayed at the click; when there is no result
\* or the result has no predictionId, no request is sent and the status
\* 'Prediction ID is missing' is set.
C11_NoPredictionMeansMissingStatus ==
    [][HandleMedicationSubmit =>
        /\ \A m \in SentMedicationRequests :
               PredictionNamed /\ m.data.predictionId = result.predictionId
        /\ ~ PredictionNamed =>
               /\ SentMedicationRequests = {}
               /\ submissionStatus' = MsgIdMissing]_vars

\* C11 amended: every request handleMedicationSubmit sends carries the
\* predictionId of the result displayed at the click; when there is no result
\* or the result has no predictionId, no request is sent, and the status
\* 'Prediction ID is missing' is set provided the checks on the medications
\* going forward pass (otherwise the message of the failing check is shown
\* and the status is left as it was).
C11_RequestsCarryDisplayedPredictionId ==
    [][HandleMedicationSubmit =>
        /\ \A m \in SentMedicationRequests :
               PredictionNamed /\ m.data.predictionId = result.predictionId
        /\ ~ PredictionNamed =>
               /\ SentMedicationRequests = {}
               /\ IF FutureSelectionAccepted
                  THEN submissionStatus' = MsgIdMissing
                  ELSE /\ submissionStatus' = submissionStatus
                       /\ medicationError' \in {MsgSelectFuture, MsgNone}]_vars

\* A click without a named prediction was refused with the status; later the
\* second prediction is displayed and a request carrying its identifier is
\* awaited.
C11_Witness ==
    /\ PredictionNamed
    /\ result.predictionId = 2
    /\ \E m \in medInflight : m.data.predictionId = 2
    /\ submissionStatus = MsgIdMissing

(***************************************************************************)
(* The displayed result and the latest submission.                         *)
(***************************************************************************)
\* C12: the displayed result is the response to the most recent submission:
\* it is never the response to a request made before the latest one, and it
\* is never displayed together with the validation message of a later
\* submission.
C12_DisplayedResultIsLatest ==
    result # NULL =>
        /\ result.predictionId = nextId
        /\ errorMessage \notin ValidationMessages
====
